---- MODULE Spec2Model ----
(***************************************************************************)
(* S Cube Studioz booking manager: the in-memory booking collection of     *)
(* App and its persisted copy, the BookingForm that creates bookings, the  *)
(* BookingList instances that cancel, complete and invoice them, the       *)
(* views derived from the collection, and the AskAI chat.                  *)
(*                                                                         *)
(* Representation of the JavaScript values:                                *)
(*   - a time string "HH:mm" is the tuple <<h, m>>, the empty string <<>>; *)
(*   - a date string "YYYY-MM-DD" is its day number (fixed width, so the   *)
(*     string order is the numeric order), the empty string is 0;          *)
(*   - an optional field is a sequence of length 0 (undefined) or 1;       *)
(*   - the form's durationHours is a number <<0, n>>, a numeric string     *)
(*     <<1, n>> or the empty string <<1>> (handleChange stores strings);   *)
(*   - Date.now() is the day-resolution clock `now`;                       *)
(*   - the localStorage item is absent, the empty string, a text that is   *)
(*     not JSON, or the array of objects JSON.stringify wrote;             *)
(*   - an await or a queued callback is a counter of the calls suspended   *)
(*     there, and the code after it a separate action.                     *)
(***************************************************************************)
EXTENDS Integers, Sequences, FiniteSets, TLC

\* ---------------------------------------------------------------- bounds
MaxBookings == 2
\* Permission prompts, recordings being read and requests in flight at once,
\* per surface.
MaxInFlight == 2
\* Bookings of a stored collection the views are computed on.
MaxStored == 6

\* ------------------------------------------------------------- constants
CONFIRMED == "CONFIRMED"
COMPLETED == "COMPLETED"
CANCELLED == "CANCELLED"
BookingStatus == {CONFIRMED, COMPLETED, CANCELLED}

DASHBOARD == "DASHBOARD"
CALENDAR == "CALENDAR"
REPORTS == "REPORTS"
ViewMode == {DASHBOARD, CALENDAR, REPORTS}

None == <<>>
Some(x) == <<x>>

EmptyStr == <<>>
NumV(n) == <<0, n>>
StrV(n) == <<1, n>>
EmptyStrV == <<1>>

\* JavaScript truthiness of a number-or-string value: 0 and "" are falsy.
Truthy(v) == IF v[1] = 0 THEN v[2] # 0 ELSE Len(v) = 2
\* Number(v): Number("") is 0.
ToNumber(v) == IF Len(v) = 2 THEN v[2] ELSE 0

ErrRequired == "Please fill in all required fields."
ErrOverlap == "Overlap Detected! This slot is already booked."
ErrAI == "Could not understand the booking request. Please try again or fill manually."
ErrMic == "Microphone access denied or not available."
ErrVoice == "Could not understand the voice input."
NoError == "null"

\* ------------------------------------------------------------ input sets
Dates == {1, 2}
StartTimes == {<<10, 0>>, <<11, 0>>}
ClientNames == {"", "A"}
DurationInputs == {EmptyStrV, StrV(1)}
EndTimeInputs == {EmptyStr, <<13, 30>>}
InvoiceRates == {300, 1000}
ListNames == {"today", "upcoming", "calendar"}

VARIABLES
    bookings,       \* App: useState<Booking[]>
    viewMode,       \* App: useState<ViewMode>
    showAddModal,   \* App: useState(false)
    now,            \* the clock read by new Date() / Date.now()
    nextId,         \* the next value of crypto.randomUUID()
    formData,       \* BookingForm: useState<Partial<Booking>>
    isAnalyzing,    \* BookingForm: useState(false)
    error,          \* BookingForm: useState<string | null>
    lists,          \* per BookingList instance: completingId, completionTime,
                    \* invoicingId, invoiceRate
    selectedDate,   \* CalendarView: useState(today)
    loading,        \* App: useState(true)
    storage,        \* localStorage, the item 'scube_bookings'
    crashed,        \* an effect threw: React has unmounted the whole tree
    startDate,      \* Reports: useState(a month before today)
    endDate,        \* Reports: useState(today)
    voice,          \* BookingForm: isRecording, the MediaRecorder and FileReader
                    \* in flight, the extraction requests in flight
    askAI,          \* AskAI: isOpen, inputText, isProcessing, isRecording, the
                    \* recorder and the assistant requests in flight
    tabB,           \* a second tab of the application: its loading and bookings
    summary,        \* App: useState<string | null>, the dependencies its
                    \* effect last ran with, the summary requests in flight
    endTimeCase     \* a booking handed to initiateCompletion and the
                    \* completionTime it sets

vars == <<bookings, viewMode, showAddModal, now, nextId, formData, isAnalyzing,
          error, lists, selectedDate, loading, storage, crashed, startDate,
          endDate, voice, askAI, tabB, summary, endTimeCase>>

\* ------------------------------------------------------------------ App
\* No summary shown, the summary effect not yet run, nothing in flight.
\* deps: the [viewMode, bookings] the effect last ran with; pending: the
\* bookings of the calls of generateSessionSummary awaiting the service,
\* oldest first; latest: the bookings of the call made last.
initialSummary ==
    [shown |-> None, deps |-> None, pending |-> <<>>, latest |-> None]

\* No booking has been handed to initiateCompletion.
noCase == None

Today == now

handleAddBooking(prev, newBooking) == Append(prev, newBooking)


\* Mutant: the id test is lost, every row takes the new status.
handleStatusChangeEveryRow(prev, id, status) ==
    [i \in DOMAIN prev |-> [prev[i] EXCEPT !.status = status]]

\* Mutant: cancelling deletes the row instead of marking it.
handleStatusChangeRemoves(prev, id, status) ==
    SelectSeq(prev, LAMBDA b : b.id # id)

handleStatusChange(prev, id, status) ==
    [i \in DOMAIN prev |->
        IF prev[i].id = id THEN [prev[i] EXCEPT !.status = status] ELSE prev[i]]


\* Mutant: the id test is lost, every row is completed.
handleCompleteEveryRow(prev, id, endTime) ==
    [i \in DOMAIN prev |->
        [prev[i] EXCEPT !.status = COMPLETED, !.actualEndTime = Some(endTime)]]

handleComplete(prev, id, endTime) ==
    [i \in DOMAIN prev |->
        IF prev[i].id = id
        THEN [prev[i] EXCEPT !.status = COMPLETED, !.actualEndTime = Some(endTime)]
        ELSE prev[i]]

handleUpdateBooking(prev, updatedBooking) ==
    [i \in DOMAIN prev |->
        IF prev[i].id = updatedBooking.id THEN updatedBooking ELSE prev[i]]


\* ----------------------------------------------------------- persistence
\* The item 'scube_bookings' of localStorage: absent (getItem returns null),
\* the empty text, a text that is not JSON, or a JSON text, held as the
\* sequence of the objects it denotes.
NoItem == [kind |-> "absent", text |-> <<>>]
EmptyText == [kind |-> "empty", text |-> <<>>]
MalformedText == [kind |-> "malformed", text |-> <<>>]
JsonText(objects) == [kind |-> "json", text |-> objects]

OptionalKeys == {"actualEndTime", "notes", "invoiceDetails"}

\* JSON.stringify of a booking: a key whose value is undefined is left out.
stringifyBooking(b) ==
    [k \in {key \in DOMAIN b : key \notin OptionalKeys \/ b[key] # None} |->
        IF k \in OptionalKeys THEN b[k][1] ELSE b[k]]

JSONstringify(coll) == JsonText([i \in DOMAIN coll |-> stringifyBooking(coll[i])])

\* JSON.parse of a booking object: a key that is absent reads as undefined.
parseBooking(o) ==
    LET optional(key) == IF key \in DOMAIN o THEN Some(o[key]) ELSE None
    IN  [id |-> o.id, clientName |-> o.clientName, phoneNumber |-> o.phoneNumber,
         date |-> o.date, startTime |-> o.startTime,
         durationHours |-> o.durationHours,
         actualEndTime |-> optional("actualEndTime"),
         type |-> o.type, status |-> o.status, createdAt |-> o.createdAt,
         notes |-> optional("notes"),
         invoiceDetails |-> optional("invoiceDetails")]

JSONparse(saved) == [i \in DOMAIN saved.text |-> parseBooking(saved.text[i])]


\* Mutant: the write keeps the stored bookings the tab does not hold.
setItemMerging(saved, coll) ==
    LET kept == IF saved.kind = "json"
                THEN SelectSeq(JSONparse(saved),
                               LAMBDA b : \A i \in DOMAIN coll : coll[i].id # b.id)
                ELSE <<>>
    IN  JSONstringify(coll \o kept)

\* localStorage.setItem('scube_bookings', JSON.stringify(bookings)): the item
\* after the write, whatever it held (saved) before.
setItem(saved, coll) == JSONstringify(coll)

\* Mutant: the save effect writes whether or not the load has happened.
saveEffectOfUnguarded(isLoading, coll, saved) == setItem(saved, coll)

\* The save effect of one render: the item it leaves, given the loading flag
\* and the collection of that render and the item before (saved).
saveEffectOf(isLoading, coll, saved) ==
    IF ~isLoading THEN setItem(saved, coll) ELSE saved


\* Mutant: the write takes the collection of the render before the update.
saveEffectStale(changed) ==
    storage' = IF changed THEN saveEffectOf(loading', bookings, storage)
                          ELSE storage

\* The save effect, run after a render in which bookings or loading changed
\* (changed: the handler called a setter of one of them).
saveEffect(changed) ==
    storage' = IF changed THEN saveEffectOf(loading', bookings', storage)
                          ELSE storage

\* The app is mounted and its load effect has run.
appRunning == ~loading /\ ~crashed

\* The effects of the first render: the load effect, then the save effect
\* with the loading flag and the collection of that render; then the save
\* effect of the render that setBookings / setLoading cause. JSON.parse
\* throws on a text that is not JSON; nothing catches it, so React unmounts
\* the tree.
mountEffects ==
    /\ loading
    /\ ~crashed
    /\ IF storage.kind = "malformed"
       THEN /\ crashed' = TRUE
            /\ UNCHANGED <<bookings, loading, storage>>
       ELSE /\ bookings' = IF storage.kind = "json" THEN JSONparse(storage)
                                                     ELSE bookings
            /\ loading' = FALSE
            /\ storage' = saveEffectOf(loading', bookings',
                                       saveEffectOf(loading, bookings, storage))
            /\ UNCHANGED crashed
    /\ UNCHANGED <<viewMode, showAddModal, now, nextId, formData, isAnalyzing,
                   error, lists, selectedDate, startDate, endDate, voice,
                   askAI, tabB>>
    /\ UNCHANGED <<summary, endTimeCase>>

\* bookings.filter(b => b.date >= today && b.status === CONFIRMED)
relevantBookings(coll, today) ==
    SelectSeq(coll, LAMBDA b : b.date >= today /\ b.status = CONFIRMED)

\* The summary effect has not run since viewMode or bookings changed.
summaryEffectDue == summary.deps # Some(<<viewMode, bookings>>)

\* What the summary state holds: the kind of text ("summary" from the
\* service, its fallbacks "unavailable" and "failed", "none" for "No
\* sessions to summarize.") and the bookings it was asked for.
summaryText(kind, relevant) == [kind |-> kind, for |-> relevant]

\* The AI summary effect. generateSessionSummary of an empty list resolves
\* without a request, so its .then(setSummary) runs at once; otherwise the
\* request is sent.
summaryEffect ==
    /\ summaryEffectDue
    /\ IF viewMode = DASHBOARD /\ Len(bookings) > 0
       THEN LET relevant == relevantBookings(bookings, Today)
            IN  IF Len(relevant) = 0
                THEN summary' = [summary EXCEPT
                        !.deps = Some(<<viewMode, bookings>>),
                        !.latest = Some(relevant),
                        !.shown = Some(summaryText("none", relevant))]
                ELSE summary' = [summary EXCEPT
                        !.deps = Some(<<viewMode, bookings>>),
                        !.latest = Some(relevant),
                        !.pending = Append(@, relevant)]
       ELSE summary' = [summary EXCEPT !.deps = Some(<<viewMode, bookings>>)]
    /\ UNCHANGED <<bookings, viewMode, showAddModal, now, nextId, formData,
                   isAnalyzing, error, lists, selectedDate, loading, storage,
                   crashed, startDate, endDate, voice, askAI, tabB,
                   endTimeCase>>

\* The call pending[k] of generateSessionSummary resolves (with the
\* service's text or with one of its fallbacks): .then(setSummary).
generateSessionSummaryResolved(k, kind) ==
    /\ k \in DOMAIN summary.pending
    /\ summary' = [summary EXCEPT
            !.pending = [i \in 1..(Len(@) - 1) |->
                            IF i < k THEN @[i] ELSE @[i + 1]],
            !.shown = Some(summaryText(kind, summary.pending[k]))]
    /\ UNCHANGED <<bookings, viewMode, showAddModal, now, nextId, formData,
                   isAnalyzing, error, lists, selectedDate, loading, storage,
                   crashed, startDate, endDate, voice, askAI, tabB,
                   endTimeCase>>


\* ---------------------------------------------------------- BookingForm
initialFormData(today) ==
    [clientName |-> "", phoneNumber |-> "", date |-> today,
     startTime |-> <<10, 0>>, durationHours |-> NumV(2),
     type |-> "Vocal Recording", status |-> CONFIRMED]

\* The form state while the modal is closed (the component is not mounted).
unmountedFormData == initialFormData(0)

\* isRecording, and what the form has in flight: getUserMedia calls awaiting
\* the user (micPending), stopped recorders whose stop event is queued
\* (stopping), FileReaders reading a recording (reading), and the extraction
\* requests sent to the service from the text and from a recording. sent
\* lists the requests awaiting their response, oldest first, each with
\* whether the response of a later request has already arrived (overtaken);
\* staleMerged tells that the response merged last was of such a request.
initialVoice ==
    [isRecording |-> FALSE, micPending |-> 0, stopping |-> 0, reading |-> 0,
     textRequests |-> 0, voiceRequests |-> 0, sent |-> <<>>,
     staleMerged |-> FALSE]

\* The requests still awaited once the response of sent[k] has arrived.
arrived(sent, k) ==
    [i \in 1..(Len(sent) - 1) |->
        IF i < k THEN [sent[i] EXCEPT !.overtaken = TRUE] ELSE sent[i + 1]]

inFlight(v) ==
    v.micPending + v.stopping + v.reading + v.textRequests + v.voiceRequests


\* Mutant: closed intervals, touching endpoints count as an overlap.
checkOverlapClosed(newBooking, existingBookings) ==
    IF newBooking.date = 0 \/ newBooking.startTime = EmptyStr
       \/ ~Truthy(newBooking.durationHours)
    THEN FALSE
    ELSE
        LET newStartTimeMinutes ==
                newBooking.startTime[1] * 60 + newBooking.startTime[2]
            newEndTimeMinutes ==
                newStartTimeMinutes + ToNumber(newBooking.durationHours) * 60
        IN  \E i \in DOMAIN existingBookings :
                LET b == existingBookings[i]
                    bStartMinutes == b.startTime[1] * 60 + b.startTime[2]
                    bEndMinutes == bStartMinutes + b.durationHours * 60
                IN  /\ b.status # CANCELLED
                    /\ b.date = newBooking.date
                    /\ newStartTimeMinutes <= bEndMinutes
                    /\ newEndTimeMinutes >= bStartMinutes

\* Mutant: cancelled bookings are not skipped.
checkOverlapAnyStatus(newBooking, existingBookings) ==
    IF newBooking.date = 0 \/ newBooking.startTime = EmptyStr
       \/ ~Truthy(newBooking.durationHours)
    THEN FALSE
    ELSE
        LET newStartTimeMinutes ==
                newBooking.startTime[1] * 60 + newBooking.startTime[2]
            newEndTimeMinutes ==
                newStartTimeMinutes + ToNumber(newBooking.durationHours) * 60
        IN  \E i \in DOMAIN existingBookings :
                LET b == existingBookings[i]
                    bStartMinutes == b.startTime[1] * 60 + b.startTime[2]
                    bEndMinutes == bStartMinutes + b.durationHours * 60
                IN  /\ b.date = newBooking.date
                    /\ newStartTimeMinutes < bEndMinutes
                    /\ newEndTimeMinutes > bStartMinutes

\* Mutant: a booking that runs past midnight also occupies the start of the
\* next day.
checkOverlapPastMidnight(newBooking, existingBookings) ==
    IF newBooking.date = 0 \/ newBooking.startTime = EmptyStr
       \/ ~Truthy(newBooking.durationHours)
    THEN FALSE
    ELSE
        LET newStartTimeMinutes ==
                newBooking.startTime[1] * 60 + newBooking.startTime[2]
            newEndTimeMinutes ==
                newStartTimeMinutes + ToNumber(newBooking.durationHours) * 60
        IN  \E i \in DOMAIN existingBookings :
                LET b == existingBookings[i]
                    bStartMinutes == b.startTime[1] * 60 + b.startTime[2]
                    bEndMinutes == bStartMinutes + b.durationHours * 60
                IN  /\ b.status # CANCELLED
                    /\ \/ /\ b.date = newBooking.date
                          /\ newStartTimeMinutes < bEndMinutes
                          /\ newEndTimeMinutes > bStartMinutes
                       \/ /\ b.date + 1 = newBooking.date
                          /\ newStartTimeMinutes < bEndMinutes - 24 * 60

checkOverlap(newBooking, existingBookings) ==
    IF newBooking.date = 0 \/ newBooking.startTime = EmptyStr
       \/ ~Truthy(newBooking.durationHours)
    THEN FALSE
    ELSE
        LET newStart == newBooking.startTime[1] * 100 + newBooking.startTime[2]
            startHour == newStart \div 100
            startMin == newStart % 100
            newStartTimeMinutes == startHour * 60 + startMin
            newEndTimeMinutes ==
                newStartTimeMinutes + ToNumber(newBooking.durationHours) * 60
        IN  \E i \in DOMAIN existingBookings :
                LET b == existingBookings[i]
                    bStartMinutes == b.startTime[1] * 60 + b.startTime[2]
                    bEndMinutes == bStartMinutes + b.durationHours * 60
                IN  /\ b.status # CANCELLED
                    /\ b.date = newBooking.date
                    /\ newStartTimeMinutes < bEndMinutes
                    /\ newEndTimeMinutes > bStartMinutes


\* Mutant: the id is taken from the clock instead of a fresh UUID.
newBookingOfClockId(fd, id, createdAt) ==
    [id |-> createdAt,
     clientName |-> fd.clientName,
     phoneNumber |-> fd.phoneNumber,
     date |-> fd.date,
     startTime |-> fd.startTime,
     durationHours |-> ToNumber(fd.durationHours),
     actualEndTime |-> None,
     type |-> IF fd.type = "" THEN "General" ELSE fd.type,
     status |-> CONFIRMED,
     createdAt |-> createdAt,
     notes |-> None,
     invoiceDetails |-> None]

\* Mutant: the form data is spread into the record, its status included.
newBookingOfSpread(fd, id, createdAt) ==
    [id |-> id,
     clientName |-> fd.clientName,
     phoneNumber |-> fd.phoneNumber,
     date |-> fd.date,
     startTime |-> fd.startTime,
     durationHours |-> ToNumber(fd.durationHours),
     actualEndTime |-> None,
     type |-> IF fd.type = "" THEN "General" ELSE fd.type,
     status |-> fd.status,
     createdAt |-> createdAt,
     notes |-> None,
     invoiceDetails |-> None]

\* The record handleSubmit builds from the form.
newBookingOf(fd, id, createdAt) ==
    [id |-> id,
     clientName |-> fd.clientName,
     phoneNumber |-> fd.phoneNumber,
     date |-> fd.date,
     startTime |-> fd.startTime,
     durationHours |-> ToNumber(fd.durationHours),
     actualEndTime |-> None,
     type |-> IF fd.type = "" THEN "General" ELSE fd.type,
     status |-> CONFIRMED,
     createdAt |-> createdAt,
     notes |-> None,
     invoiceDetails |-> None]

\* onClose(): the modal is hidden and the form component unmounted.
onClose ==
    /\ showAddModal' = FALSE
    /\ formData' = unmountedFormData
    /\ isAnalyzing' = FALSE
    /\ error' = NoError
    /\ voice' = initialVoice

\* setShowAddModal(true): mounts a fresh BookingForm.
openAddModal ==
    /\ ~showAddModal
    /\ showAddModal' = TRUE
    /\ formData' = initialFormData(Today)
    /\ isAnalyzing' = FALSE
    /\ error' = NoError
    /\ UNCHANGED <<bookings, viewMode, now, nextId, lists, selectedDate>>
    /\ voice' = initialVoice
    /\ UNCHANGED <<storage, startDate, endDate, loading, crashed, askAI, tabB>>
    /\ UNCHANGED <<summary, endTimeCase>>

closeAddModal ==
    /\ showAddModal
    /\ onClose
    /\ UNCHANGED <<bookings, viewMode, now, nextId, lists, selectedDate>>
    /\ UNCHANGED <<storage, startDate, endDate, loading, crashed, askAI, tabB>>
    /\ UNCHANGED <<summary, endTimeCase>>

handleChange(name, value) ==
    /\ showAddModal
    /\ formData' = [formData EXCEPT ![name] = value]
    /\ error' = NoError
    /\ UNCHANGED <<bookings, viewMode, showAddModal, now, nextId, isAnalyzing,
                   lists, selectedDate>>
    /\ UNCHANGED <<storage, startDate, endDate, voice, loading, crashed, askAI, tabB>>
    /\ UNCHANGED <<summary, endTimeCase>>


\* Mutant: the return after the overlap message is lost.
handleSubmitNoReturn ==
    /\ showAddModal
    /\ UNCHANGED <<startDate, endDate, loading, crashed, askAI, tabB>>
    /\ IF formData.clientName = "" \/ formData.date = 0
          \/ formData.startTime = EmptyStr
       THEN /\ error' = ErrRequired
            /\ UNCHANGED <<bookings, showAddModal, nextId, formData, isAnalyzing,
                           voice, storage>>
       ELSE /\ Len(bookings) < MaxBookings
            /\ bookings' = handleAddBooking(bookings,
                                            newBookingOf(formData, nextId, now))
            /\ nextId' = nextId + 1
            /\ onClose
            /\ saveEffect(TRUE)
    /\ UNCHANGED <<viewMode, now, lists, selectedDate>>
    /\ UNCHANGED <<summary, endTimeCase>>

handleSubmit ==
    /\ showAddModal
    /\ UNCHANGED <<startDate, endDate, loading, crashed, askAI, tabB>>
    /\ IF formData.clientName = "" \/ formData.date = 0
          \/ formData.startTime = EmptyStr
       THEN /\ error' = ErrRequired
            /\ UNCHANGED <<bookings, showAddModal, nextId, formData, isAnalyzing,
                           voice, storage>>
       ELSE IF checkOverlap(formData, bookings)
       THEN /\ error' = ErrOverlap
            /\ UNCHANGED <<bookings, showAddModal, nextId, formData, isAnalyzing,
                           voice, storage>>
       ELSE /\ Len(bookings) < MaxBookings
            /\ bookings' = handleAddBooking(bookings,
                                            newBookingOf(formData, nextId, now))
            /\ nextId' = nextId + 1
            /\ onClose
            /\ saveEffect(TRUE)
    /\ UNCHANGED <<viewMode, now, lists, selectedDate>>
    /\ UNCHANGED <<summary, endTimeCase>>


\* What parseBookingRequest may resolve to: null (None), or a record of
\* optional fields parsed from the service's JSON, which nothing validates.
ExtractedResponses ==
    { [clientName |-> Some("A"), date |-> None, startTime |-> Some(<<11, 0>>),
       durationHours |-> Some(1), type |-> None, status |-> None],
      [clientName |-> Some("A"), date |-> None, startTime |-> None,
       durationHours |-> None, type |-> Some("Mixing"),
       status |-> Some(COMPLETED)] }

\* { ...prev, ...extracted, type: extracted.type || prev.type,
\*   durationHours: extracted.durationHours || prev.durationHours }
mergeExtracted(prev, extracted) ==
    LET pick(field) ==
            IF extracted[field] = None THEN prev[field] ELSE extracted[field][1]
    IN  [clientName |-> pick("clientName"),
         phoneNumber |-> prev.phoneNumber,
         date |-> pick("date"),
         startTime |-> pick("startTime"),
         durationHours |->
            IF extracted.durationHours # None /\ extracted.durationHours[1] # 0
            THEN NumV(extracted.durationHours[1])
            ELSE prev.durationHours,
         type |->
            IF extracted.type # None /\ extracted.type[1] # ""
            THEN extracted.type[1]
            ELSE prev.type,
         status |-> pick("status")]

\* handleAIFill up to the await: the request is sent.
handleAIFill ==
    /\ showAddModal
    /\ ~isAnalyzing
    /\ ~voice.isRecording
    /\ inFlight(voice) < MaxInFlight
    /\ isAnalyzing' = TRUE
    /\ error' = NoError
    /\ voice' = [voice EXCEPT
                    !.textRequests = @ + 1,
                    !.sent = Append(@, [kind |-> "text", overtaken |-> FALSE])]
    /\ UNCHANGED <<bookings, viewMode, showAddModal, now, nextId, formData,
                   lists, selectedDate>>
    /\ UNCHANGED <<storage, startDate, endDate, loading, crashed, askAI, tabB>>
    /\ UNCHANGED <<summary, endTimeCase>>

\* Mutant: the response of a request that a later one has overtaken is
\* dropped.
handleAIFillResolvedLatestOnly(extracted) ==
    /\ showAddModal
    /\ voice.textRequests > 0
    /\ \E k \in DOMAIN voice.sent :
          /\ voice.sent[k].kind = "text"
          /\ voice' = [voice EXCEPT
                          !.textRequests = @ - 1,
                          !.sent = arrived(@, k),
                          !.staleMerged = extracted # None
                                          /\ voice.sent[k].overtaken]
          /\ IF extracted # None
             THEN /\ formData' = IF voice.sent[k].overtaken
                                 THEN formData
                                 ELSE mergeExtracted(formData, extracted[1])
                  /\ UNCHANGED error
             ELSE error' = ErrAI /\ UNCHANGED formData
    /\ isAnalyzing' = FALSE
    /\ UNCHANGED <<bookings, viewMode, showAddModal, now, nextId, lists,
                   selectedDate>>
    /\ UNCHANGED <<storage, startDate, endDate, loading, crashed, askAI, tabB>>
    /\ UNCHANGED <<summary, endTimeCase>>

\* handleAIFill after the await: the response (Some(record) or None) arrives.
handleAIFillResolved(extracted) ==
    /\ showAddModal
    /\ voice.textRequests > 0
    /\ \E k \in DOMAIN voice.sent :
          /\ voice.sent[k].kind = "text"
          /\ voice' = [voice EXCEPT
                          !.textRequests = @ - 1,
                          !.sent = arrived(@, k),
                          !.staleMerged = extracted # None
                                          /\ voice.sent[k].overtaken]
    /\ isAnalyzing' = FALSE
    /\ IF extracted # None
       THEN formData' = mergeExtracted(formData, extracted[1]) /\ UNCHANGED error
       ELSE error' = ErrAI /\ UNCHANGED formData
    /\ UNCHANGED <<bookings, viewMode, showAddModal, now, nextId, lists,
                   selectedDate>>
    /\ UNCHANGED <<storage, startDate, endDate, loading, crashed, askAI, tabB>>
    /\ UNCHANGED <<summary, endTimeCase>>


\* startRecording up to the await: getUserMedia asks for the microphone.
startRecording ==
    /\ showAddModal
    /\ ~voice.isRecording
    /\ ~isAnalyzing
    /\ inFlight(voice) < MaxInFlight
    /\ voice' = [voice EXCEPT !.micPending = @ + 1]
    /\ UNCHANGED <<bookings, viewMode, showAddModal, now, nextId, formData,
                   isAnalyzing, error, lists, selectedDate, loading, storage,
                   crashed, startDate, endDate, askAI, tabB>>
    /\ UNCHANGED <<summary, endTimeCase>>

\* startRecording after the await: the stream arrives and the recorder
\* starts, or getUserMedia rejects and the catch reports it.
startRecordingResolved(granted) ==
    /\ showAddModal
    /\ voice.micPending > 0
    /\ IF granted
       THEN /\ voice' = [voice EXCEPT !.micPending = @ - 1,
                                      !.isRecording = TRUE]
            /\ error' = NoError
       ELSE /\ voice' = [voice EXCEPT !.micPending = @ - 1]
            /\ error' = ErrMic
    /\ UNCHANGED <<bookings, viewMode, showAddModal, now, nextId, formData,
                   isAnalyzing, lists, selectedDate, loading, storage,
                   crashed, startDate, endDate, askAI, tabB>>
    /\ UNCHANGED <<summary, endTimeCase>>

\* stopRecording: the recorder is told to stop, its stop event is queued.
stopRecording ==
    /\ showAddModal
    /\ voice.isRecording
    /\ voice' = [voice EXCEPT !.isRecording = FALSE, !.stopping = @ + 1]
    /\ UNCHANGED <<bookings, viewMode, showAddModal, now, nextId, formData,
                   isAnalyzing, error, lists, selectedDate, loading, storage,
                   crashed, startDate, endDate, askAI, tabB>>
    /\ UNCHANGED <<summary, endTimeCase>>

\* mediaRecorder.onstop: processVoiceBooking up to reader.readAsDataURL.
onstop ==
    /\ showAddModal
    /\ voice.stopping > 0
    /\ isAnalyzing' = TRUE
    /\ voice' = [voice EXCEPT !.stopping = @ - 1, !.reading = @ + 1]
    /\ UNCHANGED <<bookings, viewMode, showAddModal, now, nextId, formData,
                   error, lists, selectedDate, loading, storage, crashed,
                   startDate, endDate, askAI, tabB>>
    /\ UNCHANGED <<summary, endTimeCase>>

\* reader.onloadend: reader.result is the data URL, or null when the read
\* failed; null.split throws inside the callback, beyond the reach of the
\* try / catch of processVoiceBooking, and nothing else of it runs.
onloadend(resultIsNull) ==
    /\ showAddModal
    /\ voice.reading > 0
    /\ voice' = IF resultIsNull
                THEN [voice EXCEPT !.reading = @ - 1]
                ELSE [voice EXCEPT
                        !.reading = @ - 1,
                        !.voiceRequests = @ + 1,
                        !.sent = Append(@, [kind |-> "voice",
                                            overtaken |-> FALSE])]
    /\ UNCHANGED <<bookings, viewMode, showAddModal, now, nextId, formData,
                   isAnalyzing, error, lists, selectedDate, loading, storage,
                   crashed, startDate, endDate, askAI, tabB>>
    /\ UNCHANGED <<summary, endTimeCase>>

\* reader.onloadend after the await of parseVoiceBookingRequest.
processVoiceBookingResolved(extracted) ==
    /\ showAddModal
    /\ voice.voiceRequests > 0
    /\ \E k \in DOMAIN voice.sent :
          /\ voice.sent[k].kind = "voice"
          /\ voice' = [voice EXCEPT
                          !.voiceRequests = @ - 1,
                          !.sent = arrived(@, k),
                          !.staleMerged = extracted # None
                                          /\ voice.sent[k].overtaken]
    /\ IF extracted # None
       THEN formData' = mergeExtracted(formData, extracted[1]) /\ UNCHANGED error
       ELSE error' = ErrVoice /\ UNCHANGED formData
    /\ isAnalyzing' = FALSE
    /\ UNCHANGED <<bookings, viewMode, showAddModal, now, nextId, lists,
                   selectedDate, loading, storage, crashed, startDate,
                   endDate, askAI, tabB>>
    /\ UNCHANGED <<summary, endTimeCase>>


\* ---------------------------------------------------------- derived lists
\* Array.prototype.sort with a comparator on the keys (key[i] is the key of
\* s[i]): stable, ascending.
SortByKey(s, key) ==
    LET n == Len(s)
        rank(i) == Cardinality({j \in 1..n :
                        \/ key[j] < key[i]
                        \/ (key[j] = key[i] /\ j < i)}) + 1
    IN  [r \in 1..n |-> s[CHOOSE i \in 1..n : rank(i) = r]]

\* Order of "HH:mm" strings under localeCompare.
startTimeKey(b) == b.startTime[1] * 100 + b.startTime[2]
\* Order of the concatenation date + startTime under localeCompare.
dateTimeKey(b) == b.date * 10000 + startTimeKey(b)

getTodaysBookings ==
    LET filtered == SelectSeq(bookings, LAMBDA b : b.date = Today)
    IN  SortByKey(filtered, [i \in DOMAIN filtered |-> startTimeKey(filtered[i])])

getUpcomingBookings ==
    LET filtered == SelectSeq(bookings, LAMBDA b : b.date >= Today)
    IN  SortByKey(filtered, [i \in DOMAIN filtered |-> dateTimeKey(filtered[i])])


\* Mutant: the element at index n is taken as well.
sliceFirstInclusive(s, n) ==
    [i \in 1..(IF Len(s) < n + 1 THEN Len(s) ELSE n + 1) |-> s[i]]

\* Array.prototype.slice(0, n)
sliceFirst(s, n) == [i \in 1..(IF Len(s) < n THEN Len(s) ELSE n) |-> s[i]]

dashboardUpcoming ==
    sliceFirst(SelectSeq(getUpcomingBookings, LAMBDA b : b.date # Today), 5)

selectedDateBookings ==
    LET filtered == SelectSeq(bookings, LAMBDA b : b.date = selectedDate)
    IN  SortByKey(filtered, [i \in DOMAIN filtered |-> startTimeKey(filtered[i])])

\* ----------------------------------------------------------- BookingList
initialListState ==
    [completingId |-> None, completionTime |-> EmptyStr,
     invoicingId |-> None, invoiceRate |-> 1000]

\* The BookingList instances rendered in a view.
Mounted(view) ==
    IF view = DASHBOARD THEN {"today", "upcoming"}
    ELSE IF view = CALENDAR THEN {"calendar"}
    ELSE {}

\* The bookings prop of a BookingList instance.
listBookings(l) ==
    IF l = "today" THEN getTodaysBookings
    ELSE IF l = "upcoming" THEN dashboardUpcoming
    ELSE selectedDateBookings

\* Only the dashboard lists receive onUpdateBooking.
hasOnUpdateBooking(l) == l \in {"today", "upcoming"}

Rendered(l) == {listBookings(l)[i] : i \in DOMAIN listBookings(l)}

JsRem(a, n) == IF a >= 0 THEN a % n ELSE 0 - ((0 - a) % n)

\* The default end of initiateCompletion. The duration comes doubled, so
\* that a duration with a half hour is a whole number here: endHour2 is
\* twice endHour. The text of a whole endHour, padded, gives "HH:mm", held
\* as <<h, m>>; the text of endHour = h + 0.5 is "h.5", which gives
\* "h.5:mm", held as <<h, 5, m>>.
defaultEndOf(startParts, durationHours2) ==
    LET endHour2 == JsRem(2 * startParts[1] + durationHours2, 48)
    IN  IF JsRem(endHour2, 2) = 0
        THEN <<endHour2 \div 2, startParts[2]>>
        ELSE <<(endHour2 - 1) \div 2, 5, startParts[2]>>

initiateCompletion(l, booking) ==
    /\ l \in Mounted(viewMode)
    /\ booking.status = CONFIRMED
    /\ lists[l].completingId # Some(booking.id)
    /\ booking \in Rendered(l)
    /\ LET startParts == booking.startTime
           defaultEnd == defaultEndOf(startParts, 2 * booking.durationHours)
       IN  lists' = [lists EXCEPT ![l].completionTime = defaultEnd,
                                  ![l].completingId = Some(booking.id)]
    /\ UNCHANGED <<bookings, viewMode, showAddModal, now, nextId, formData,
                   isAnalyzing, error, selectedDate>>
    /\ UNCHANGED <<storage, startDate, endDate, voice, loading, crashed, askAI, tabB>>
    /\ UNCHANGED <<summary, endTimeCase>>

\* The completion editor of list l is on screen for one of its bookings.
editorShown(l) ==
    /\ l \in Mounted(viewMode)
    /\ lists[l].completingId # None
    /\ \E b \in Rendered(l) : lists[l].completingId = Some(b.id)

setCompletionTime(l, value) ==
    /\ editorShown(l)
    /\ lists' = [lists EXCEPT ![l].completionTime = value]
    /\ UNCHANGED <<bookings, viewMode, showAddModal, now, nextId, formData,
                   isAnalyzing, error, selectedDate>>
    /\ UNCHANGED <<storage, startDate, endDate, voice, loading, crashed, askAI, tabB>>
    /\ UNCHANGED <<summary, endTimeCase>>


\* Mutant: the completionTime test is lost.
confirmCompletionAnyTime(l) ==
    /\ editorShown(l)
    /\ UNCHANGED <<startDate, endDate, voice, loading, crashed, askAI, tabB>>
    /\ bookings' = handleComplete(bookings, lists[l].completingId[1],
                                  lists[l].completionTime)
    /\ saveEffect(TRUE)
    /\ lists' = [lists EXCEPT ![l].completingId = None]
    /\ UNCHANGED <<viewMode, showAddModal, now, nextId, formData, isAnalyzing,
                   error, selectedDate>>
    /\ UNCHANGED <<summary, endTimeCase>>

confirmCompletion(l) ==
    /\ editorShown(l)
    /\ UNCHANGED <<startDate, endDate, voice, loading, crashed, askAI, tabB>>
    /\ IF lists[l].completingId # None /\ lists[l].completionTime # EmptyStr
       THEN /\ bookings' = handleComplete(bookings, lists[l].completingId[1],
                                          lists[l].completionTime)
            /\ saveEffect(TRUE)
            /\ lists' = [lists EXCEPT ![l].completingId = None]
       ELSE UNCHANGED <<bookings, storage, lists>>
    /\ UNCHANGED <<viewMode, showAddModal, now, nextId, formData, isAnalyzing,
                   error, selectedDate>>
    /\ UNCHANGED <<summary, endTimeCase>>

cancelCompletion(l) ==
    /\ editorShown(l)
    /\ lists' = [lists EXCEPT ![l].completingId = None]
    /\ UNCHANGED <<bookings, viewMode, showAddModal, now, nextId, formData,
                   isAnalyzing, error, selectedDate>>
    /\ UNCHANGED <<storage, startDate, endDate, voice, loading, crashed, askAI, tabB>>
    /\ UNCHANGED <<summary, endTimeCase>>

\* initiateCompletion on the booking of endTimeCase: what setCompletionTime
\* receives.
initiateCompletionOfCase ==
    /\ endTimeCase # noCase
    /\ endTimeCase[1].completionTime = None
    /\ endTimeCase' =
           Some([endTimeCase[1] EXCEPT !.completionTime =
                    Some(defaultEndOf(endTimeCase[1].startTime,
                                      endTimeCase[1].durationHours2))])
    /\ UNCHANGED <<bookings, viewMode, showAddModal, now, nextId, formData,
                   isAnalyzing, error, lists, selectedDate, loading, storage,
                   crashed, startDate, endDate, voice, askAI, tabB, summary>>

\* The Cancel button of a CONFIRMED booking: onStatusChange(id, CANCELLED).
\* Mutant: the Cancel button stays on screen beside the completion editor.
cancelBookingBesideEditor(l, booking) ==
    /\ l \in Mounted(viewMode)
    /\ booking.status = CONFIRMED
    /\ booking \in Rendered(l)
    /\ UNCHANGED <<startDate, endDate, voice, loading, crashed, askAI, tabB>>
    /\ bookings' = handleStatusChange(bookings, booking.id, CANCELLED)
    /\ saveEffect(TRUE)
    /\ UNCHANGED <<viewMode, showAddModal, now, nextId, formData, isAnalyzing,
                   error, lists, selectedDate>>
    /\ UNCHANGED <<summary, endTimeCase>>

cancelBooking(l, booking) ==
    /\ l \in Mounted(viewMode)
    /\ booking.status = CONFIRMED
    /\ lists[l].completingId # Some(booking.id)
    /\ booking \in Rendered(l)
    /\ UNCHANGED <<startDate, endDate, voice, loading, crashed, askAI, tabB>>
    /\ bookings' = handleStatusChange(bookings, booking.id, CANCELLED)
    /\ saveEffect(TRUE)
    /\ UNCHANGED <<viewMode, showAddModal, now, nextId, formData, isAnalyzing,
                   error, lists, selectedDate>>
    /\ UNCHANGED <<summary, endTimeCase>>

handleCreateInvoice(l, booking) ==
    /\ l \in Mounted(viewMode)
    /\ booking.status = COMPLETED
    /\ lists[l].completingId # Some(booking.id)
    /\ booking \in Rendered(l)
    /\ lists' = [lists EXCEPT
            ![l].invoicingId = Some(booking.id),
            ![l].invoiceRate =
                IF booking.invoiceDetails # None
                   /\ booking.invoiceDetails[1].ratePerHour # 0
                THEN booking.invoiceDetails[1].ratePerHour
                ELSE 1000]
    /\ UNCHANGED <<bookings, viewMode, showAddModal, now, nextId, formData,
                   isAnalyzing, error, selectedDate>>
    /\ UNCHANGED <<storage, startDate, endDate, voice, loading, crashed, askAI, tabB>>
    /\ UNCHANGED <<summary, endTimeCase>>

\* The invoice panel of list l is on screen for this booking.
invoicePanelShown(l, booking) ==
    /\ l \in Mounted(viewMode)
    /\ lists[l].invoicingId = Some(booking.id)
    /\ booking \in Rendered(l)

setInvoiceRate(l, rate) ==
    /\ \E b \in Rendered(l) : invoicePanelShown(l, b)
    /\ lists' = [lists EXCEPT ![l].invoiceRate = rate]
    /\ UNCHANGED <<bookings, viewMode, showAddModal, now, nextId, formData,
                   isAnalyzing, error, selectedDate>>
    /\ UNCHANGED <<storage, startDate, endDate, voice, loading, crashed, askAI, tabB>>
    /\ UNCHANGED <<summary, endTimeCase>>

\* Mutant: the total is the hourly rate, the duration left out.
collectionAfterPDFFlatTotal(l, booking) ==
    LET rate == lists[l].invoiceRate
        total == lists[l].invoiceRate
    IN  IF hasOnUpdateBooking(l)
        THEN handleUpdateBooking(bookings,
                 [booking EXCEPT !.invoiceDetails =
                     Some([ratePerHour |-> rate, totalAmount |-> total,
                           generatedAt |-> now])])
        ELSE bookings

\* The collection that generateAndDownloadPDF(booking, invoiceRate,
\* invoiceRate * durationHours) of list l leaves once the PDF is saved.
collectionAfterPDF(l, booking) ==
    LET rate == lists[l].invoiceRate
        total == lists[l].invoiceRate * booking.durationHours
    IN  IF hasOnUpdateBooking(l)
        THEN handleUpdateBooking(bookings,
                 [booking EXCEPT !.invoiceDetails =
                     Some([ratePerHour |-> rate, totalAmount |-> total,
                           generatedAt |-> now])])
        ELSE bookings

generateAndDownloadPDF(l, booking) ==
    /\ invoicePanelShown(l, booking)
    /\ UNCHANGED <<startDate, endDate, voice, loading, crashed, askAI, tabB>>
    /\ IF hasOnUpdateBooking(l)
       THEN /\ bookings' = collectionAfterPDF(l, booking)
            /\ saveEffect(TRUE)
       ELSE UNCHANGED <<bookings, storage>>
    /\ UNCHANGED <<viewMode, showAddModal, now, nextId, formData, isAnalyzing,
                   error, lists, selectedDate>>
    /\ UNCHANGED <<summary, endTimeCase>>

closeInvoice(l) ==
    /\ \E b \in Rendered(l) : invoicePanelShown(l, b)
    /\ lists' = [lists EXCEPT ![l].invoicingId = None]
    /\ UNCHANGED <<bookings, viewMode, showAddModal, now, nextId, formData,
                   isAnalyzing, error, selectedDate>>
    /\ UNCHANGED <<storage, startDate, endDate, voice, loading, crashed, askAI, tabB>>
    /\ UNCHANGED <<summary, endTimeCase>>

\* ---------------------------------------------------------------- Reports
\* new Date(new Date().setMonth(getMonth() - 1)): a date before today.
monthBefore(today) == today - 30


\* Mutant: the end of the range is excluded.
filteredBookingsBeforeEnd(coll, from, to) ==
    SelectSeq(coll, LAMBDA b : b.date >= from /\ b.date < to)

filteredBookings(coll, from, to) ==
    SelectSeq(coll, LAMBDA b : b.date >= from /\ b.date <= to)

\* filtered.reduce((acc, curr) => acc + (curr.status !== CANCELLED ?
\*                                       curr.durationHours : 0), acc)
RECURSIVE reduceHours(_, _)
reduceHours(filtered, acc) ==
    IF filtered = <<>>
    THEN acc
    ELSE reduceHours(Tail(filtered),
                     acc + (IF Head(filtered).status # CANCELLED
                            THEN Head(filtered).durationHours ELSE 0))

statsOf(filtered) ==
    [total |-> Len(filtered),
     completed |-> Len(SelectSeq(filtered, LAMBDA b : b.status = COMPLETED)),
     cancelled |-> Len(SelectSeq(filtered, LAMBDA b : b.status = CANCELLED)),
     hours |-> reduceHours(filtered, 0)]

stats == statsOf(filteredBookings(bookings, startDate, endDate))

viewFrame ==
    UNCHANGED <<bookings, viewMode, showAddModal, now, nextId, formData,
                isAnalyzing, error, lists, selectedDate, loading, storage,
                crashed, voice, askAI, tabB,
                summary, endTimeCase>>

setStartDate(value) ==
    /\ viewMode = REPORTS
    /\ startDate' = value
    /\ UNCHANGED endDate
    /\ viewFrame

setEndDate(value) ==
    /\ viewMode = REPORTS
    /\ endDate' = value
    /\ UNCHANGED startDate
    /\ viewFrame

\* ------------------------------------------------- the arrays of a render
\* Array.prototype.filter builds a new array; Array.prototype.sort reorders
\* its receiver in place. Each computation below yields the array held in
\* state (state) and the array it built and returns (built) as they are
\* when it ends.
getTodaysBookingsArrays(coll, today) ==
    LET built == SelectSeq(coll, LAMBDA b : b.date = today)
    IN  [state |-> coll,
         built |-> SortByKey(built,
                             [i \in DOMAIN built |-> startTimeKey(built[i])])]


\* Mutant: bookings.sort(...).filter(...): the receiver of sort is the array
\* held in state.
getUpcomingBookingsArraysSortFirst(coll, today) ==
    LET sorted == SortByKey(coll, [i \in DOMAIN coll |-> dateTimeKey(coll[i])])
    IN  [state |-> sorted,
         built |-> SelectSeq(sorted, LAMBDA b : b.date >= today)]

getUpcomingBookingsArrays(coll, today) ==
    LET built == SelectSeq(coll, LAMBDA b : b.date >= today)
    IN  [state |-> coll,
         built |-> SortByKey(built,
                             [i \in DOMAIN built |-> dateTimeKey(built[i])])]

selectedDateBookingsArrays(coll, date) ==
    LET built == SelectSeq(coll, LAMBDA b : b.date = date)
    IN  [state |-> coll,
         built |-> SortByKey(built,
                             [i \in DOMAIN built |-> startTimeKey(built[i])])]

\* The array held in state after the view on screen was rendered.
arrayAfterRender(coll) ==
    IF viewMode = DASHBOARD
    THEN getUpcomingBookingsArrays(
             getTodaysBookingsArrays(coll, Today).state, Today).state
    ELSE IF viewMode = CALENDAR
    THEN selectedDateBookingsArrays(coll, selectedDate).state
    ELSE coll

\* A render of App and of the view on screen.
renderViews ==
    /\ bookings' = arrayAfterRender(bookings)
    /\ UNCHANGED <<viewMode, showAddModal, now, nextId, formData, isAnalyzing,
                   error, lists, selectedDate, loading, storage, crashed,
                   startDate, endDate, voice, askAI, tabB>>
    /\ UNCHANGED <<summary, endTimeCase>>

\* ------------------------------------------------------------ a second tab
closedTab == [open |-> FALSE, bookings |-> <<>>]

tabFrame ==
    UNCHANGED <<bookings, viewMode, showAddModal, now, formData, isAnalyzing,
                error, lists, selectedDate, loading, crashed, startDate,
                endDate, voice, askAI,
                summary, endTimeCase>>

\* The forms submitted in the second tab.
TabForms == {[initialFormData(d) EXCEPT !.clientName = "B"] : d \in Dates}

\* The second tab is opened: its load effect and the save effect after it.
tabBMount ==
    /\ ~tabB.open
    /\ storage.kind # "malformed"
    /\ LET loaded == IF storage.kind = "json" THEN JSONparse(storage) ELSE <<>>
       IN  /\ tabB' = [open |-> TRUE, bookings |-> loaded]
           /\ storage' = setItem(storage, loaded)
    /\ UNCHANGED nextId
    /\ tabFrame

\* handleSubmit of the second tab on a filled form, and its save effect.
tabBSubmit(fd) ==
    /\ tabB.open
    /\ Len(tabB.bookings) < MaxBookings
    /\ ~(fd.clientName = "" \/ fd.date = 0 \/ fd.startTime = EmptyStr)
    /\ ~checkOverlap(fd, tabB.bookings)
    /\ tabB' = [tabB EXCEPT !.bookings =
                    handleAddBooking(@, newBookingOf(fd, nextId, now))]
    /\ nextId' = nextId + 1
    /\ storage' = setItem(storage, tabB'.bookings)
    /\ tabFrame

\* The Cancel button of the second tab, and its save effect.
tabBCancel(i) ==
    /\ tabB.open
    /\ i \in DOMAIN tabB.bookings
    /\ tabB.bookings[i].status = CONFIRMED
    /\ tabB' = [tabB EXCEPT !.bookings =
                    handleStatusChange(@, tabB.bookings[i].id, CANCELLED)]
    /\ storage' = setItem(storage, tabB'.bookings)
    /\ UNCHANGED nextId
    /\ tabFrame

\* --------------------------------------------------- App / CalendarView
\* setViewMode(view): the lists of the old view unmount, those of the new
\* view mount with their initial state.
setViewMode(view) ==
    /\ view # viewMode
    /\ viewMode' = view
    /\ lists' = [l \in ListNames |-> initialListState]
    /\ selectedDate' = IF view = CALENDAR THEN Today ELSE 0
    /\ startDate' = IF view = REPORTS THEN monthBefore(Today) ELSE 0
    /\ endDate' = IF view = REPORTS THEN Today ELSE 0
    /\ UNCHANGED <<bookings, showAddModal, now, nextId, formData, isAnalyzing,
                   error>>
    /\ UNCHANGED <<storage, voice, loading, crashed, askAI, tabB>>
    /\ UNCHANGED <<summary, endTimeCase>>

handleDayClick(dateStr) ==
    /\ viewMode = CALENDAR
    /\ selectedDate' = dateStr
    /\ UNCHANGED <<bookings, viewMode, showAddModal, now, nextId, formData,
                   isAnalyzing, error, lists>>
    /\ UNCHANGED <<storage, startDate, endDate, voice, loading, crashed, askAI, tabB>>
    /\ UNCHANGED <<summary, endTimeCase>>

\* Midnight passes: new Date() now yields the next day.
Tick ==
    /\ now + 1 \in Dates
    /\ now' = now + 1
    /\ UNCHANGED <<bookings, viewMode, showAddModal, nextId, formData,
                   isAnalyzing, error, lists, selectedDate>>
    /\ UNCHANGED <<storage, startDate, endDate, voice, loading, crashed, askAI, tabB>>
    /\ UNCHANGED <<summary, endTimeCase>>

\* ----------------------------------------------------------------- AskAI
\* inputText is held as "" or a question; requests counts the calls of
\* askStudioAssistant in flight, from the text field and from recordings.
\* Of messages only the balance is held: unanswered is the number of user
\* messages less the number of AI messages after the welcome.
initialAskAI ==
    [isOpen |-> FALSE, inputText |-> "", isProcessing |-> FALSE,
     isRecording |-> FALSE, micPending |-> 0, stopping |-> 0, reading |-> 0,
     requests |-> 0, unanswered |-> 0]

askInFlight(a) == a.micPending + a.stopping + a.unanswered

askFrame ==
    UNCHANGED <<bookings, viewMode, showAddModal, now, nextId, formData,
                isAnalyzing, error, lists, selectedDate, loading, storage,
                crashed, startDate, endDate, voice, tabB,
                summary, endTimeCase>>

setIsOpen(open) ==
    /\ askAI.isOpen # open
    /\ askAI' = [askAI EXCEPT !.isOpen = open]
    /\ askFrame

\* The text field is disabled while isProcessing or isRecording.
setInputText(value) ==
    /\ askAI.isOpen
    /\ ~askAI.isProcessing
    /\ ~askAI.isRecording
    /\ askAI' = [askAI EXCEPT !.inputText = value]
    /\ askFrame


\* handleSendText up to the await, from the Send button (disabled while the
\* text is empty or isProcessing).
handleSendText ==
    /\ askAI.isOpen
    /\ askAI.inputText # ""
    /\ ~askAI.isProcessing
    /\ askInFlight(askAI) < MaxInFlight
    /\ askAI' = [askAI EXCEPT !.inputText = "", !.isProcessing = TRUE,
                              !.requests = @ + 1, !.unanswered = @ + 1]
    /\ askFrame

\* The answer of askStudioAssistant arrives (it never rejects): the
\* continuation of handleSendText or of reader.onloadend.
askStudioAssistantResolved ==
    /\ askAI.requests > 0
    /\ askAI' = [askAI EXCEPT !.requests = @ - 1, !.unanswered = @ - 1,
                              !.isProcessing = FALSE]
    /\ askFrame

\* startRecording of AskAI up to the await of getUserMedia.
askStartRecording ==
    /\ askAI.isOpen
    /\ ~askAI.isRecording
    /\ ~askAI.isProcessing
    /\ askInFlight(askAI) < MaxInFlight
    /\ askAI' = [askAI EXCEPT !.micPending = @ + 1]
    /\ askFrame

\* After the await: the recorder starts, or the catch alerts.
askStartRecordingResolved(granted) ==
    /\ askAI.micPending > 0
    /\ askAI' = IF granted
                THEN [askAI EXCEPT !.micPending = @ - 1, !.isRecording = TRUE]
                ELSE [askAI EXCEPT !.micPending = @ - 1]
    /\ askFrame

askStopRecording ==
    /\ askAI.isOpen
    /\ askAI.isRecording
    /\ askAI' = [askAI EXCEPT !.isRecording = FALSE, !.stopping = @ + 1]
    /\ askFrame

\* mediaRecorder.onstop: processAudioQuery up to reader.readAsDataURL.
askOnstop ==
    /\ askAI.stopping > 0
    /\ askAI' = [askAI EXCEPT !.stopping = @ - 1, !.reading = @ + 1,
                              !.unanswered = @ + 1, !.isProcessing = TRUE]
    /\ askFrame

\* reader.onloadend of processAudioQuery: null.split throws when the read
\* failed, otherwise the recording is sent.
askOnloadend(resultIsNull) ==
    /\ askAI.reading > 0
    /\ askAI' = IF resultIsNull
                THEN [askAI EXCEPT !.reading = @ - 1]
                ELSE [askAI EXCEPT !.reading = @ - 1, !.requests = @ + 1]
    /\ askFrame

\* ------------------------------------------------------- specification
\* The first launch, after the effects of the first render: nothing was
\* stored, the empty collection has been written.
Init ==
    /\ bookings = <<>>
    /\ viewMode = DASHBOARD
    /\ showAddModal = FALSE
    /\ now = 1
    /\ nextId = 1
    /\ formData = unmountedFormData
    /\ isAnalyzing = FALSE
    /\ error = NoError
    /\ lists = [l \in ListNames |-> initialListState]
    /\ selectedDate = 0
    /\ loading = FALSE
    /\ storage = JSONstringify(<<>>)
    /\ crashed = FALSE
    /\ startDate = 0
    /\ endDate = 0
    /\ voice = initialVoice
    /\ askAI = initialAskAI
    /\ tabB = closedTab
    /\ summary = initialSummary
    /\ endTimeCase = noCase

\* The form's inputs, each field edited from the given set of values.
FormEdit(names, dates, times, durations) ==
    \/ \E v \in names : handleChange("clientName", v)
    \/ \E v \in dates : handleChange("date", v)
    \/ \E v \in times : handleChange("startTime", v)
    \/ \E v \in durations : handleChange("durationHours", v)

AIFill ==
    \/ handleAIFill
    \/ \E e \in ExtractedResponses : handleAIFillResolved(Some(e))
    \/ handleAIFillResolved(None)

Completion(endTimes) ==
    \E l \in ListNames :
        \/ \E i \in DOMAIN bookings : initiateCompletion(l, bookings[i])
        \/ \E t \in endTimes : setCompletionTime(l, t)
        \/ confirmCompletion(l)
        \/ cancelCompletion(l)

Cancellation ==
    \E l \in ListNames : \E i \in DOMAIN bookings : cancelBooking(l, bookings[i])

Invoicing(rates) ==
    \E l \in ListNames :
        \/ \E i \in DOMAIN bookings : handleCreateInvoice(l, bookings[i])
        \/ \E i \in DOMAIN bookings : generateAndDownloadPDF(l, bookings[i])
        \/ \E r \in rates : setInvoiceRate(l, r)
        \/ closeInvoice(l)

Navigation ==
    \/ \E v \in ViewMode : setViewMode(v)
    \/ \E d \in Dates : handleDayClick(d)

\* The booking lifecycle: every operation on the collection, the form edited
\* with well-formed values.
Next ==
    \/ openAddModal
    \/ closeAddModal
    \/ handleChange("clientName", "A")
    \/ \E v \in Dates : handleChange("date", v)
    \/ handleSubmit
    \/ Completion(EndTimeInputs)
    \/ Cancellation
    \/ Invoicing(InvoiceRates)
    \/ Navigation
    \/ Tick

Spec == Init /\ [][Next]_vars


\* Booking creation: the form edited with every kind of value (empty fields
\* included), between cancellations and completions from the dashboard lists.
NextForm ==
    \/ openAddModal
    \/ closeAddModal
    \/ FormEdit(ClientNames, Dates \cup {0}, StartTimes \cup {EmptyStr},
                DurationInputs)
    \/ handleSubmit
    \/ \E l \in ListNames : \E i \in DOMAIN bookings :
            initiateCompletion(l, bookings[i])
    \/ \E l \in ListNames : confirmCompletion(l)
    \/ Cancellation

SpecForm == Init /\ [][NextForm]_vars


\* Booking creation from extraction responses: the form filled by the
\* service, the client name typed, between cancellations.
NextAI ==
    \/ openAddModal
    \/ closeAddModal
    \/ \E v \in ClientNames : handleChange("clientName", v)
    \/ handleSubmit
    \/ AIFill
    \/ Cancellation

SpecAI == Init /\ [][NextAI]_vars



\* What an earlier session may have left in the store: bookings the form
\* accepts (of a client S), some of them completed or cancelled since.
StoredKinds ==
    { [date |-> 1, startTime |-> <<11, 0>>, durationHours |-> 3,
       status |-> COMPLETED],
      [date |-> 2, startTime |-> <<11, 0>>, durationHours |-> 2,
       status |-> CANCELLED],
      [date |-> 2, startTime |-> <<10, 0>>, durationHours |-> 1,
       status |-> CONFIRMED],
      [date |-> 2, startTime |-> <<13, 0>>, durationHours |-> 1,
       status |-> CONFIRMED] }

storedBooking(id, kind) ==
    [id |-> id, clientName |-> "S", phoneNumber |-> "", date |-> kind.date,
     startTime |-> kind.startTime, durationHours |-> kind.durationHours,
     actualEndTime |->
        IF kind.status = COMPLETED
        THEN Some(<<kind.startTime[1] + kind.durationHours, kind.startTime[2]>>)
        ELSE None,
     type |-> "Vocal Recording", status |-> kind.status, createdAt |-> 1,
     notes |-> None, invoiceDetails |-> None]

\* The collections of at most n such bookings in which a slot is taken by
\* one live booking at most (a slot can have been cancelled many times).
StoredCollections(n) ==
    UNION { { [i \in 1..k |-> storedBooking(i, f[i])] :
                f \in { g \in [1..k -> StoredKinds] :
                          \A i, j \in 1..k :
                              (i # j /\ g[i] = g[j]) => g[i].status = CANCELLED } } :
            k \in 0..n }

\* A later launch, before the effects of the first render: the store holds
\* nothing, an empty or a broken text, or a collection.
InitStore ==
    /\ storage \in {NoItem, EmptyText, MalformedText}
                    \cup {JSONstringify(c) : c \in StoredCollections(MaxBookings)}
    /\ loading = TRUE
    /\ bookings = <<>>
    /\ nextId = Len(storage.text) + 1
    /\ viewMode = DASHBOARD
    /\ showAddModal = FALSE
    /\ now = 1
    /\ formData = unmountedFormData
    /\ isAnalyzing = FALSE
    /\ error = NoError
    /\ lists = [l \in ListNames |-> initialListState]
    /\ selectedDate = 0
    /\ crashed = FALSE
    /\ startDate = 0
    /\ endDate = 0
    /\ voice = initialVoice
    /\ askAI = initialAskAI
    /\ tabB = closedTab
    /\ summary = initialSummary
    /\ endTimeCase = noCase

\* Persistence: the mount effects, then every kind of mutation of the
\* collection; the handlers run in a mounted app only.
NextStore ==
    \/ mountEffects
    \/ appRunning /\ openAddModal
    \/ appRunning /\ closeAddModal
    \/ appRunning /\ handleChange("clientName", "A")
    \/ appRunning /\ handleSubmit
    \/ appRunning /\ \E l \in ListNames : \E i \in DOMAIN bookings :
                        initiateCompletion(l, bookings[i])
    \/ appRunning /\ \E l \in ListNames : confirmCompletion(l)
    \/ appRunning /\ Cancellation
    \/ appRunning /\ \E l \in ListNames : \E i \in DOMAIN bookings :
                        handleCreateInvoice(l, bookings[i])
    \/ appRunning /\ \E l \in ListNames : \E i \in DOMAIN bookings :
                        generateAndDownloadPDF(l, bookings[i])
    \/ appRunning /\ Tick

SpecStore == InitStore /\ [][NextStore]_vars


\* A later launch after its mount effects, on a stored collection.
InitViews ==
    /\ bookings \in StoredCollections(MaxStored)
    /\ storage = JSONstringify(bookings)
    /\ loading = FALSE
    /\ nextId = Len(bookings) + 1
    /\ viewMode = DASHBOARD
    /\ showAddModal = FALSE
    /\ now = 1
    /\ formData = unmountedFormData
    /\ isAnalyzing = FALSE
    /\ error = NoError
    /\ lists = [l \in ListNames |-> initialListState]
    /\ selectedDate = 0
    /\ crashed = FALSE
    /\ startDate = 0
    /\ endDate = 0
    /\ voice = initialVoice
    /\ askAI = initialAskAI
    /\ tabB = closedTab
    /\ summary = initialSummary
    /\ endTimeCase = noCase

\* The derived views: the three views rendered, the calendar day and the
\* report range chosen, midnight passing.
NextViews ==
    \/ Navigation
    \/ \E d \in Dates \cup {0} : setStartDate(d)
    \/ \E d \in Dates \cup {0} : setEndDate(d)
    \/ renderViews
    \/ Tick

SpecViews == InitViews /\ [][NextViews]_vars


\* Invoicing: a later launch on a stored collection, its bookings completed
\* and invoiced from the lists of every view.
NextInvoice ==
    \/ mountEffects
    \/ appRunning /\ Completion(EndTimeInputs)
    \/ appRunning /\ Invoicing(InvoiceRates)
    \/ appRunning /\ Navigation
    \/ appRunning /\ Tick

SpecInvoice == InitStore /\ [][NextInvoice]_vars


Voice ==
    \/ startRecording
    \/ \E granted \in BOOLEAN : startRecordingResolved(granted)
    \/ stopRecording
    \/ onstop
    \/ \E resultIsNull \in BOOLEAN : onloadend(resultIsNull)
    \/ \E e \in ExtractedResponses : processVoiceBookingResolved(Some(e))
    \/ processVoiceBookingResolved(None)

\* Booking creation with the text and the voice fill.
NextVoice ==
    \/ openAddModal
    \/ closeAddModal
    \/ handleChange("clientName", "A")
    \/ handleSubmit
    \/ AIFill
    \/ Voice

SpecVoice == Init /\ [][NextVoice]_vars


Chat ==
    \/ \E open \in BOOLEAN : setIsOpen(open)
    \/ \E value \in {"", "Q"} : setInputText(value)
    \/ handleSendText
    \/ askStudioAssistantResolved
    \/ askStartRecording
    \/ \E granted \in BOOLEAN : askStartRecordingResolved(granted)
    \/ askStopRecording
    \/ askOnstop
    \/ \E resultIsNull \in BOOLEAN : askOnloadend(resultIsNull)

\* The two surfaces that send requests to the service: the fill controls of
\* the form (the requests failing) and the assistant chat.
NextAssist ==
    \/ openAddModal
    \/ closeAddModal
    \/ handleAIFill
    \/ handleAIFillResolved(None)
    \/ startRecording
    \/ \E granted \in BOOLEAN : startRecordingResolved(granted)
    \/ stopRecording
    \/ onstop
    \/ \E resultIsNull \in BOOLEAN : onloadend(resultIsNull)
    \/ processVoiceBookingResolved(None)
    \/ Chat

SpecAssist == Init /\ [][NextAssist]_vars


\* Two tabs on one store: bookings created and cancelled in each.
NextTabs ==
    \/ openAddModal
    \/ closeAddModal
    \/ handleChange("clientName", "A")
    \/ \E v \in Dates : handleChange("date", v)
    \/ handleSubmit
    \/ Cancellation
    \/ tabBMount
    \/ \E fd \in TabForms : tabBSubmit(fd)
    \/ \E i \in 1..MaxBookings : tabBCancel(i)

SpecTabs == Init /\ [][NextTabs]_vars


\* The overlap test on its own: the form edited with start times at both
\* ends of the day and with durations that are empty, "0" and above one
\* hour, and submitted against the collection built so far.
OverlapTimes == StartTimes \cup {<<0, 0>>, <<23, 0>>, EmptyStr}
OverlapDurations == {EmptyStrV, StrV(0), StrV(3)}

NextOverlap ==
    \/ openAddModal
    \/ closeAddModal
    \/ FormEdit({"A"}, Dates \cup {0}, OverlapTimes, OverlapDurations)
    \/ handleSubmit

SpecOverlap == Init /\ [][NextOverlap]_vars


\* The default end time on its own: a booking of any start time and of a
\* duration of 0.5 to 6 hours (held doubled) handed to initiateCompletion.
CaseStartTimes == {<<h, m>> : h \in {0, 10, 21, 23}, m \in {0, 30}}
CaseDurations2 == 1..12

InitEndTime ==
    /\ bookings = <<>>
    /\ viewMode = DASHBOARD
    /\ showAddModal = FALSE
    /\ now = 1
    /\ nextId = 1
    /\ formData = unmountedFormData
    /\ isAnalyzing = FALSE
    /\ error = NoError
    /\ lists = [l \in ListNames |-> initialListState]
    /\ selectedDate = 0
    /\ loading = FALSE
    /\ storage = JSONstringify(<<>>)
    /\ crashed = FALSE
    /\ startDate = 0
    /\ endDate = 0
    /\ voice = initialVoice
    /\ askAI = initialAskAI
    /\ tabB = closedTab
    /\ summary = initialSummary
    /\ endTimeCase \in {Some([startTime |-> t, durationHours2 |-> d,
                              completionTime |-> None]) :
                            t \in CaseStartTimes, d \in CaseDurations2}

NextEndTime == initiateCompletionOfCase

SpecEndTime == InitEndTime /\ [][NextEndTime]_vars


\* The dashboard summary: the effect runs after every render whose viewMode
\* or bookings changed, before the next event is handled; the responses
\* arrive in any order.
SummaryKinds == {"summary", "unavailable", "failed"}

NextSummary ==
    \/ summaryEffect
    \/ \E k \in 1..MaxInFlight : \E kind \in SummaryKinds :
            generateSessionSummaryResolved(k, kind)
    \/ /\ ~summaryEffectDue
       /\ Len(summary.pending) < MaxInFlight
       /\ \/ openAddModal
          \/ closeAddModal
          \/ handleChange("clientName", "A")
          \/ \E v \in Dates : handleChange("date", v)
          \/ handleSubmit
          \/ Cancellation
          \/ \E v \in ViewMode : setViewMode(v)

SpecSummary == Init /\ [][NextSummary]_vars


\* ================================================================ claims
\* Minutes since midnight of an "HH:mm" time.
minutesOf(t) == t[1] * 60 + t[2]
startOf(b) == minutesOf(b.startTime)
endOf(b) == minutesOf(b.startTime) + b.durationHours * 60

\* Some non-cancelled booking of the collection on that date meets the
\* interval (s, e) under the open-interval test.
slotTaken(date, s, e, coll) ==
    \E i \in DOMAIN coll :
        /\ coll[i].status # CANCELLED
        /\ coll[i].date = date
        /\ s < endOf(coll[i])
        /\ e > startOf(coll[i])

requiredFilled(fd) ==
    fd.clientName # "" /\ fd.date # 0 /\ fd.startTime # EmptyStr

candidateStart == minutesOf(formData.startTime)
candidateEnd == minutesOf(formData.startTime) + ToNumber(formData.durationHours) * 60

\* The step appended one booking to the collection.
created == Len(bookings') = Len(bookings) + 1

\* C1: no two distinct non-cancelled bookings with the same date satisfy
\* b1.start < b2.end and b1.end > b2.start (times in minutes, end = start +
\* durationHours * 60), in every state reached from the empty collection by
\* creations, cancellations and completions.
C1_NoOverlap ==
    \A i, j \in DOMAIN bookings :
        (/\ i # j
         /\ bookings[i].status # CANCELLED
         /\ bookings[j].status # CANCELLED
         /\ bookings[i].date = bookings[j].date)
        => ~(/\ startOf(bookings[i]) < endOf(bookings[j])
             /\ endOf(bookings[i]) > startOf(bookings[j]))

\* C2: the status of a booking changes only from CONFIRMED to COMPLETED or
\* from CONFIRMED to CANCELLED: in every step, every booking of the
\* collection is still there and either keeps its status or was CONFIRMED
\* and is now COMPLETED or CANCELLED.
C2_StatusMonotone ==
    [][\A i \in DOMAIN bookings :
          /\ i \in DOMAIN bookings'
          /\ bookings'[i].status # bookings[i].status
             => /\ bookings[i].status = CONFIRMED
                /\ bookings'[i].status \in {COMPLETED, CANCELLED}]_vars

\* A booking was completed and then invoiced, another one was cancelled.
C2_Witness ==
    /\ \E i \in DOMAIN bookings :
          bookings[i].status = COMPLETED /\ bookings[i].invoiceDetails # None
    /\ \E i \in DOMAIN bookings : bookings[i].status = CANCELLED

\* C3: a submission with the required fields and a positive durationHours is
\* rejected with the overlap message if and only if some non-cancelled
\* booking of the same date satisfies candidateStart < bEnd and
\* candidateEnd > bStart; otherwise it is stored (touching endpoints pass).
C3_OverlapIff ==
    [][(/\ handleSubmit
        /\ requiredFilled(formData)
        /\ ToNumber(formData.durationHours) > 0)
       => IF slotTaken(formData.date, candidateStart, candidateEnd, bookings)
          THEN error' = ErrOverlap /\ bookings' = bookings
          ELSE error' # ErrOverlap /\ created]_vars

\* Two live bookings of one day touch (one ends when the other starts), and
\* a further submission has just been rejected as an overlap.
C3_Witness ==
    /\ showAddModal
    /\ error = ErrOverlap
    /\ \E i, j \in DOMAIN bookings :
          /\ bookings[i].status # CANCELLED
          /\ bookings[j].status # CANCELLED
          /\ bookings[i].date = bookings[j].date
          /\ endOf(bookings[i]) = startOf(bookings[j])

\* C4: a submission whose date, startTime and durationHours are those of a
\* cancelled booking, and which no non-cancelled booking overlaps, is stored.
C4_CancelledNeverBlocks ==
    [][(/\ handleSubmit
        /\ requiredFilled(formData)
        /\ \E i \in DOMAIN bookings :
              /\ bookings[i].status = CANCELLED
              /\ bookings[i].date = formData.date
              /\ bookings[i].startTime = formData.startTime
              /\ bookings[i].durationHours = ToNumber(formData.durationHours)
        /\ ~slotTaken(formData.date, candidateStart, candidateEnd, bookings))
       => created /\ error' = NoError]_vars

\* A cancelled booking and a later live booking share date, start and duration.
C4_Witness ==
    \E i, j \in DOMAIN bookings :
        /\ i < j
        /\ bookings[i].status = CANCELLED
        /\ bookings[j].status # CANCELLED
        /\ bookings[i].date = bookings[j].date
        /\ bookings[i].startTime = bookings[j].startTime
        /\ bookings[i].durationHours = bookings[j].durationHours
        /\ bookings[j].durationHours > 0

\* C5: a submission that fails validation (clientName, date or startTime
\* missing, or an overlap with a live booking detected) sets an error message,
\* keeps the form open and leaves the collection exactly as it was.
C5_FailedSubmitNoChange ==
    [][(/\ handleSubmit
        /\ \/ ~requiredFilled(formData)
           \/ /\ Truthy(formData.durationHours)
              /\ slotTaken(formData.date, candidateStart, candidateEnd, bookings))
       => /\ error' \in {ErrRequired, ErrOverlap}
          /\ bookings' = bookings
          /\ showAddModal']_vars

\* A submission with a missing field has just been refused while the
\* collection holds bookings.
C5_Witness ==
    /\ showAddModal
    /\ error = ErrRequired
    /\ Len(bookings) > 0

\* C6: confirming the completion of a CONFIRMED booking with a non-empty end
\* time t makes it COMPLETED with actualEndTime t, keeps its other fields, and
\* keeps every other booking and the order of the collection.
C6_CompleteFrame ==
    [][\A l \in ListNames :
          (editorShown(l) /\ lists[l].completionTime # EmptyStr
                /\ confirmCompletion(l))
          => /\ Len(bookings') = Len(bookings)
             /\ \A i \in DOMAIN bookings :
                   IF bookings[i].id = lists[l].completingId[1]
                   THEN /\ bookings[i].status = CONFIRMED
                        /\ bookings'[i].status = COMPLETED
                        /\ bookings'[i].actualEndTime
                              = Some(lists[l].completionTime)
                        /\ bookings'[i].id = bookings[i].id
                        /\ bookings'[i].clientName = bookings[i].clientName
                        /\ bookings'[i].phoneNumber = bookings[i].phoneNumber
                        /\ bookings'[i].date = bookings[i].date
                        /\ bookings'[i].startTime = bookings[i].startTime
                        /\ bookings'[i].durationHours = bookings[i].durationHours
                        /\ bookings'[i].type = bookings[i].type
                        /\ bookings'[i].createdAt = bookings[i].createdAt
                        /\ bookings'[i].notes = bookings[i].notes
                        /\ bookings'[i].invoiceDetails = bookings[i].invoiceDetails
                   ELSE bookings'[i] = bookings[i]]_vars

\* A booking was completed with the end time the user typed, next to a
\* booking that is still CONFIRMED.
C6_Witness ==
    /\ \E i \in DOMAIN bookings :
          /\ bookings[i].status = COMPLETED
          /\ bookings[i].actualEndTime = Some(<<13, 30>>)
    /\ \E i \in DOMAIN bookings : bookings[i].status = CONFIRMED

\* C7: no step removes a booking: every id of the collection is still in it
\* after the step, and a cancelled booking stays in it with status CANCELLED.
C7_NeverRemoved ==
    [][/\ \A i \in DOMAIN bookings :
             \E j \in DOMAIN bookings' : bookings'[j].id = bookings[i].id
       /\ \A l \in ListNames : \A i \in DOMAIN bookings :
             cancelBooking(l, bookings[i])
             => \E j \in DOMAIN bookings' :
                   /\ bookings'[j].id = bookings[i].id
                   /\ bookings'[j].status = CANCELLED]_vars

\* The collection is full and holds a cancelled booking.
C7_Witness ==
    /\ Len(bookings) = MaxBookings
    /\ \E i \in DOMAIN bookings : bookings[i].status = CANCELLED

\* C8: the ids of the collection are pairwise distinct in every state, and no
\* step changes the id or the createdAt of a booking.
C8_IdsUniqueImmutable ==
    /\ [](\A i, j \in DOMAIN bookings :
            i # j => bookings[i].id # bookings[j].id)
    /\ [][\A i \in DOMAIN bookings :
            /\ i \in DOMAIN bookings'
            /\ bookings'[i].id = bookings[i].id
            /\ bookings'[i].createdAt = bookings[i].createdAt]_vars

\* Two bookings created on different days, one of them invoiced later than
\* it was created.
C8_Witness ==
    \E i, j \in DOMAIN bookings :
        /\ bookings[i].createdAt # bookings[j].createdAt
        /\ bookings[i].invoiceDetails # None
        /\ bookings[i].invoiceDetails[1].generatedAt # bookings[i].createdAt

\* C9: every booking a submission adds is CONFIRMED and has neither an
\* actualEndTime nor invoiceDetails, whatever the form data holds.
C9_CreatedConfirmed ==
    [][(handleSubmit /\ created)
       => /\ bookings'[Len(bookings')].status = CONFIRMED
          /\ bookings'[Len(bookings')].actualEndTime = None
          /\ bookings'[Len(bookings')].invoiceDetails = None]_vars

\* A booking was created from a form into which an extraction response had
\* merged the type "Mixing" together with the status COMPLETED.
C9_Witness ==
    \E i \in DOMAIN bookings :
        bookings[i].type = "Mixing" /\ bookings[i].status = CONFIRMED

\* C10: a booking has an actualEndTime exactly when it is COMPLETED, and that
\* end time is never the empty string.
C10_EndTimeIffCompleted ==
    \A i \in DOMAIN bookings :
        /\ bookings[i].actualEndTime # None <=> bookings[i].status = COMPLETED
        /\ bookings[i].actualEndTime # None
           => bookings[i].actualEndTime[1] # EmptyStr

\* A completion editor stands open with its end time cleared, next to a
\* completed booking.
C10_Witness ==
    /\ \E l \in Mounted(viewMode) :
          editorShown(l) /\ lists[l].completionTime = EmptyStr
    /\ \E i \in DOMAIN bookings : bookings[i].status = COMPLETED

\* C11: once the load has finished, the item 'scube_bookings' is the
\* serialization of the in-memory collection in every state the handlers
\* leave (create, cancel, complete and invoice update each write it whole).
C11_PersistedEqualsMemory ==
    appRunning => storage = JSONstringify(bookings)

\* A stored collection was loaded and one of its bookings invoiced in this
\* session: the store holds the invoice, next to a cancelled booking.
C11_Witness ==
    /\ appRunning
    /\ storage.kind = "json"
    /\ Len(storage.text) = MaxBookings
    /\ \E i \in DOMAIN storage.text :
          /\ "invoiceDetails" \in DOMAIN storage.text[i]
          /\ storage.text[i].clientName = "S"
    /\ \E i \in DOMAIN storage.text : storage.text[i].status = CANCELLED

\* C12: when the stored text is malformed, the load leaves the application
\* running with the empty collection and loading finished.
C12_MalformedFallsBack ==
    [][(mountEffects /\ storage.kind = "malformed")
       => /\ ~crashed'
          /\ ~loading'
          /\ bookings' = <<>>]_vars

\* The bookings of the collection (by index) whose date lies in the report
\* range, both ends included.
inRange == {i \in DOMAIN bookings :
               startDate <= bookings[i].date /\ bookings[i].date <= endDate}

RECURSIVE hoursOver(_)
hoursOver(indices) ==
    IF indices = {}
    THEN 0
    ELSE LET i == CHOOSE x \in indices : TRUE
         IN  bookings[i].durationHours + hoursOver(indices \ {i})

\* C13: the report statistics are: total, the number of bookings with
\* from <= date <= to; completed and cancelled, the numbers of those with
\* that status; hours, the sum of durationHours over those not cancelled;
\* so completed + cancelled <= total, and from > to gives all zeros.
C13_ReportStats ==
    viewMode = REPORTS
    => /\ stats.total = Cardinality(inRange)
       /\ stats.completed
            = Cardinality({i \in inRange : bookings[i].status = COMPLETED})
       /\ stats.cancelled
            = Cardinality({i \in inRange : bookings[i].status = CANCELLED})
       /\ stats.hours
            = hoursOver({i \in inRange : bookings[i].status # CANCELLED})
       /\ stats.completed + stats.cancelled <= stats.total
       /\ startDate > endDate
          => stats = [total |-> 0, completed |-> 0, cancelled |-> 0, hours |-> 0]

\* The report covers a COMPLETED booking of 3 hours, a CANCELLED one of 2
\* hours and a CONFIRMED one of 1 hour, its range ending on their last day.
C13_Witness ==
    /\ viewMode = REPORTS
    /\ startDate = 1
    /\ endDate = 2
    /\ Len(bookings) = 3
    /\ stats = [total |-> 3, completed |-> 1, cancelled |-> 1, hours |-> 4]

notAfter(b1, b2) ==
    \/ b1.date < b2.date
    \/ b1.date = b2.date /\ minutesOf(b1.startTime) <= minutesOf(b2.startTime)

\* C15: today's list holds exactly the bookings dated today, cancelled ones
\* included, by ascending startTime; the upcoming sequence holds exactly the
\* bookings dated today or later, by ascending (date, startTime); the
\* dashboard shows the first 5 at most of the bookings of the upcoming
\* sequence that are not dated today.
C15_TodayAndUpcoming ==
    LET todays == getTodaysBookings
        upcoming == getUpcomingBookings
        shown == dashboardUpcoming
        later == {i \in DOMAIN bookings : bookings[i].date > Today}
    IN  /\ {todays[k] : k \in DOMAIN todays}
             = {bookings[i] : i \in {j \in DOMAIN bookings :
                                        bookings[j].date = Today}}
        /\ Len(todays)
             = Cardinality({j \in DOMAIN bookings : bookings[j].date = Today})
        /\ \A k \in 1..(Len(todays) - 1) :
               minutesOf(todays[k].startTime) <= minutesOf(todays[k + 1].startTime)
        /\ {upcoming[k] : k \in DOMAIN upcoming}
             = {bookings[i] : i \in {j \in DOMAIN bookings :
                                        bookings[j].date >= Today}}
        /\ Len(upcoming)
             = Cardinality({j \in DOMAIN bookings : bookings[j].date >= Today})
        /\ \A k \in 1..(Len(upcoming) - 1) : notAfter(upcoming[k], upcoming[k + 1])
        /\ Len(shown) = IF Cardinality(later) < 5 THEN Cardinality(later) ELSE 5
        /\ \A k \in DOMAIN shown :
               /\ shown[k].date # Today
               /\ shown[k] = SelectSeq(upcoming, LAMBDA b : b.date # Today)[k]

\* Midnight has passed: today's list holds three bookings at least, a
\* cancelled one among them, stored in another order than it shows them in.
C15_Witness ==
    /\ viewMode = DASHBOARD
    /\ Today = 2
    /\ Len(getTodaysBookings) >= 3
    /\ \E k \in DOMAIN getTodaysBookings : getTodaysBookings[k].status = CANCELLED
    /\ getTodaysBookings # SelectSeq(bookings, LAMBDA b : b.date = Today)

\* C16: every booking a submission stores has a non-empty clientName, a
\* date, a startTime and a positive durationHours; a form whose
\* durationHours is empty, zero or negative stores nothing.
C16_StoredBookingValid ==
    [][handleSubmit
       => /\ created
             => /\ bookings'[Len(bookings')].clientName # ""
                /\ bookings'[Len(bookings')].date # 0
                /\ bookings'[Len(bookings')].startTime # EmptyStr
                /\ bookings'[Len(bookings')].durationHours > 0
          /\ ToNumber(formData.durationHours) <= 0 => ~created]_vars

\* C17: in every list whose invoice panel is open on a completed booking,
\* generating the invoice leaves that booking with invoiceDetails
\* {ratePerHour, totalAmount, generatedAt} of the panel's rate (a previous
\* invoice overwritten), its other fields and the other bookings unchanged.
C17_InvoiceRecorded ==
    \A l \in ListNames : \A i \in DOMAIN bookings :
        invoicePanelShown(l, bookings[i])
        => LET after == collectionAfterPDF(l, bookings[i])
           IN  /\ Len(after) = Len(bookings)
               /\ after[i] = [bookings[i] EXCEPT !.invoiceDetails =
                      Some([ratePerHour |-> lists[l].invoiceRate,
                            totalAmount |->
                               lists[l].invoiceRate * bookings[i].durationHours,
                            generatedAt |-> now])]
               /\ \A j \in DOMAIN bookings : j # i => after[j] = bookings[j]

\* C18: when an extraction request of the form fails (the text or the
\* voice request resolves to null, or the read of the recording yields no
\* data), the form shows an error message, its fields and the collection
\* are unchanged, and isAnalyzing is false again.
C18_FailureRecovered ==
    [][(\/ handleAIFillResolved(None)
        \/ processVoiceBookingResolved(None)
        \/ onloadend(TRUE))
       => /\ error' # NoError
          /\ formData' = formData
          /\ bookings' = bookings
          /\ ~isAnalyzing']_vars

\* C19: on each surface (the form's fill controls, the assistant chat) one
\* request to the service at most is outstanding at any time.
C19_OneRequestPerSurface ==
    /\ voice.textRequests + voice.voiceRequests <= 1
    /\ askAI.requests <= 1

\* The ids of the bookings held in a stored text.
storedIds(saved) ==
    IF saved.kind = "json"
    THEN {saved.text[i].id : i \in DOMAIN saved.text}
    ELSE {}

\* C20: two tabs on one store. Every mutation of a tab replaces the whole
\* stored value by that tab's collection: after a mutation in the second
\* tab the store holds exactly the second tab's collection, and every
\* booking of the first tab that the second tab never loaded is gone from
\* the store (and the other way round for a mutation in the first tab).
C20_LastWriterWins ==
    [][/\ (tabB.open /\ tabB'.bookings # tabB.bookings)
           => /\ storage' = JSONstringify(tabB'.bookings)
              /\ \A i \in DOMAIN bookings :
                    (\A j \in DOMAIN tabB'.bookings :
                        tabB'.bookings[j].id # bookings[i].id)
                    => bookings[i].id \notin storedIds(storage')
       /\ (tabB.open /\ bookings' # bookings)
           => /\ storage' = JSONstringify(bookings')
              /\ \A j \in DOMAIN tabB.bookings :
                    (\A i \in DOMAIN bookings' :
                        bookings'[i].id # tabB.bookings[j].id)
                    => tabB.bookings[j].id \notin storedIds(storage')]_vars

\* Both tabs are open, the first tab holds a booking it created and saved,
\* the second tab has mutated its own collection since, and the store now
\* holds the second tab's collection without the first tab's booking.
C20_Witness ==
    /\ tabB.open
    /\ tabB.bookings # <<>>
    /\ storage = JSONstringify(tabB.bookings)
    /\ \E i \in DOMAIN bookings :
          /\ bookings[i].clientName = "A"
          /\ bookings[i].id \notin storedIds(storage)

\* C21: a candidate whose date or start time is empty, or whose duration is
\* empty or equal to 0, is never found to overlap, whatever the collection.
C21_MissingNeverOverlaps ==
    (/\ showAddModal
     /\ \/ formData.date = 0
        \/ formData.startTime = EmptyStr
        \/ ToNumber(formData.durationHours) = 0)
    => ~checkOverlap(formData, bookings)

\* C22: only bookings of the candidate's date are compared. A candidate is
\* found to overlap only when a live booking of the same date exists, and a
\* booking whose computed end lies past 24:00 never blocks a candidate of
\* the next day, however early that one starts.
C22_SameDateOnly ==
    showAddModal =>
        /\ checkOverlap(formData, bookings)
             => \E i \in DOMAIN bookings :
                    /\ bookings[i].date = formData.date
                    /\ bookings[i].status # CANCELLED
        /\ \A i \in DOMAIN bookings :
              (/\ endOf(bookings[i]) > 24 * 60
               /\ formData.date = bookings[i].date + 1)
              => ~checkOverlap(formData, <<bookings[i]>>)

\* A booking from 23:00 for 3 hours is stored, and after it a booking of
\* the next day at 00:00 has been accepted.
C22_Witness ==
    \E i, j \in DOMAIN bookings :
        /\ i < j
        /\ bookings[i].startTime = <<23, 0>>
        /\ bookings[i].durationHours = 3
        /\ bookings[j].date = bookings[i].date + 1
        /\ bookings[j].startTime = <<0, 0>>
        /\ bookings[j].durationHours > 0

\* C23: the default end time proposed by initiateCompletion is the time of
\* day startTime + durationHours, wrapping at 24:00, for whole and for
\* fractional durations.
C23_DefaultEndTime ==
    (endTimeCase # noCase /\ endTimeCase[1].completionTime # None) =>
        LET c == endTimeCase[1]
            endMinutes == minutesOf(c.startTime) + c.durationHours2 * 30
        IN  c.completionTime =
                Some(<<(endMinutes \div 60) % 24, endMinutes % 60>>)

loaded(saved) == IF saved.kind = "json" THEN JSONparse(saved) ELSE <<>>

\* C25: while loading is true the save effect writes nothing, and the step
\* that ends the loading leaves in the store the serialization of the
\* collection that was loaded (the empty one when nothing was stored),
\* which is then the collection in memory.
C25_NoWriteBeforeLoad ==
    [][loading =>
        /\ saveEffectOf(loading, bookings, storage) = storage
        /\ loading' => storage' = storage
        /\ ~loading' => /\ bookings' = loaded(storage)
                        /\ storage' = JSONstringify(loaded(storage))]_vars

\* The app has just been mounted on a stored collection: the collection is
\* in memory, nothing else has happened, and the store holds it.
C25_Witness ==
    /\ appRunning
    /\ Len(bookings) = MaxBookings
    /\ \A i \in DOMAIN bookings : bookings[i].clientName = "S"
    /\ nextId = Len(bookings) + 1
    /\ \A l \in ListNames : lists[l] = initialListState
    /\ storage = JSONstringify(bookings)

\* The invoices of a collection are well formed: a booking with
\* invoiceDetails is COMPLETED, its totalAmount is ratePerHour *
\* durationHours and its ratePerHour lies in 300..5000.
invoicesWellFormed(coll) ==
    \A i \in DOMAIN coll :
        coll[i].invoiceDetails # None
        => /\ coll[i].status = COMPLETED
           /\ coll[i].invoiceDetails[1].totalAmount =
                  coll[i].invoiceDetails[1].ratePerHour * coll[i].durationHours
           /\ coll[i].invoiceDetails[1].ratePerHour \in 300..5000

\* C26: the invoices of the collection are well formed after every step,
\* and the step that opens the invoice panel of a list on a booking sets
\* the panel's rate to the booking's stored rate, or to 1000 when the
\* booking has no invoice yet.
C26_InvoiceDetails ==
    [][/\ invoicesWellFormed(bookings')
       /\ \A l \in ListNames : \A i \in DOMAIN bookings :
             handleCreateInvoice(l, bookings[i])
             => lists'[l].invoiceRate =
                   IF bookings[i].invoiceDetails # None
                   THEN bookings[i].invoiceDetails[1].ratePerHour
                   ELSE 1000]_vars

\* An invoice at 300 an hour is stored, and a panel opened on that booking
\* offers 300.
C26_Witness ==
    \E l \in ListNames : \E i \in DOMAIN bookings :
        /\ bookings[i].invoiceDetails # None
        /\ bookings[i].invoiceDetails[1].ratePerHour = 300
        /\ bookings[i].invoiceDetails[1].totalAmount = 300 * bookings[i].durationHours
        /\ bookings[i].durationHours > 0
        /\ invoicePanelShown(l, bookings[i])
        /\ lists[l].invoiceRate = 300
        /\ \E m \in ListNames : m # l /\ lists[m].invoiceRate = 1000

\* The forms that handleSubmit turns into the stored booking b: the
\* duration typed is any text whose number is b's durationHours.
formsOf(b) ==
    {[initialFormData(b.date) EXCEPT !.clientName = b.clientName,
                                     !.startTime = b.startTime,
                                     !.durationHours = d] :
        d \in {v \in OverlapDurations \cup {NumV(2)} :
                  ToNumber(v) = b.durationHours}}

\* C27: for two candidates of the same date the overlap test does not
\* depend on the order of submission. With A accepted and stored, the
\* candidate B of the form is rejected exactly when A, submitted as a
\* candidate, is rejected against B accepted and stored.
C27_OrderIndependent ==
    (showAddModal /\ requiredFilled(formData)) =>
        \A i \in DOMAIN bookings :
            bookings[i].date = formData.date =>
                \A fa \in formsOf(bookings[i]) :
                    checkOverlap(formData, <<bookings[i]>>)
                    = checkOverlap(fa, <<newBookingOf(formData, 0, now)>>)

\* C28: whenever the completion editor of a list is on screen, the booking
\* it is open for is CONFIRMED; so the id that confirmCompletion passes to
\* handleComplete is never that of a CANCELLED or COMPLETED booking.
C28_EditorOnConfirmedOnly ==
    \A l \in ListNames :
        editorShown(l) =>
            \E i \in DOMAIN bookings :
                /\ bookings[i].id = lists[l].completingId[1]
                /\ bookings[i].status = CONFIRMED

\* The calendar's editor is open on a booking while another booking of the
\* collection has been cancelled and the new-booking form is open.
C28_Witness ==
    /\ viewMode = CALENDAR
    /\ editorShown("calendar")
    /\ showAddModal
    /\ \E j \in DOMAIN bookings : bookings[j].status = CANCELLED

\* C29: once the summary effect has run for the current collection and no
\* summary request is pending, the summary on screen is the one of the
\* request made last.
C29_LatestSummaryShown ==
    (/\ ~summaryEffectDue
     /\ summary.pending = <<>>
     /\ summary.latest # None)
    => /\ summary.shown # None
       /\ summary.shown[1].for = summary.latest[1]

\* C30: the processing flag of the assistant chat is true exactly while a
\* query has no reply yet, and every query without a reply has its read or
\* its request in progress, so that its reply is still to come.
C30_ProcessingWhileOutstanding ==
    /\ askAI.isProcessing <=> askAI.unanswered > 0
    /\ askAI.unanswered = askAI.reading + askAI.requests

====
